---- MODULE Spec2Model ----
(***************************************************************************)
(* A model of the piserver print front-end: the upload, queue, history,    *)
(* cancel, reprint and status request handlers of app.py, the job store of *)
(* utils/db_helper.py, the spooler adapter of utils/cups_helper.py, the    *)
(* file helpers of utils/file_helper.py and the retention sweep.           *)
(*                                                                         *)
(* Time is counted in ticks of a fixed fraction of a day.  The job store   *)
(* stamps submitted_at with SQLite's CURRENT_TIMESTAMP, which is UTC; the  *)
(* Python side computes its cutoffs and stored-name stamps from            *)
(* datetime.now(), which is the host's local time.  `now` is the UTC       *)
(* clock and `tz` the host's offset from UTC.                              *)
(*                                                                         *)
(* Every external call (a spooler command, a filesystem operation, a store *)
(* operation) takes its outcome from the environment: the action that      *)
(* makes the call draws the outcome with \E.  `log` holds the calls that   *)
(* write (to the filesystem, the spooler or the store) made by the latest  *)
(* step, and `resp` what the latest step answered.                         *)
(***************************************************************************)
EXTENDS Integers, Sequences, FiniteSets, TLC

VARIABLES now, tz, records, nextRowId, disk, up, rp, log, resp

\* the handler and the status of the answer come first: two answers of
\* different handlers are told apart before their lists are compared
vars == <<resp.handler, resp.code, now, tz, records, nextRowId, disk, up, rp, log, resp>>

----------------------------------------------------------------------------
(* Bounds of the model *)

\* ticks per day: the granularity of the clock
TicksPerDay == 2

\* files in one upload request
MaxBatch == 2

\* rows ever inserted into print_jobs
MaxRows == 2

(* Program constants *)

FILE_RETENTION_DAYS == 7

MinCopies == 1

MaxCopies == 10

DefaultCopies == 1

QueueWindowDays == 1

ALLOWED_EXTENSIONS == {"pdf", "txt", "jpg", "jpeg", "png"}

UPLOAD_FOLDER == "print"

----------------------------------------------------------------------------
(* Time *)

Days(d) == d * TicksPerDay

\* the instants the clock visits: the start, the end of the retention window
\* and the tick after it
Instants == {0, Days(FILE_RETENTION_DAYS), Days(FILE_RETENTION_DAYS) + 1}

\* host offsets from UTC, in ticks: a host on UTC and a host ahead of it
TZOffsets == {0, 1}

\* datetime.now(): naive local time
LocalNow == now + tz

\* SQLite CURRENT_TIMESTAMP: UTC
CurrentTimestamp == now

----------------------------------------------------------------------------
(* Filenames.  A filename is [dir, parts]: an optional path prefix and the *)
(* dot-separated components of the base name; the empty filename has no    *)
(* parts.                                                                  *)

NoName == [dir |-> "", parts |-> <<>>]

Filenames ==
    { NoName,
      [dir |-> "../", parts |-> <<"doc", "PDF">>],
      [dir |-> "", parts |-> <<"run", "exe">>],
      [dir |-> "", parts |-> <<"README">>] }

Lower(s) ==
    CASE s = "PDF" -> "pdf"
      [] s = "TXT" -> "txt"
      [] s = "PNG" -> "png"
      [] OTHER -> s

\* '.' in filename
HasDot(fn) == Len(fn.parts) >= 2 \/ fn.dir = "../"

\* filename.rsplit('.', 1)[1]: the text after the last dot
AfterLastDot(fn) ==
    IF Len(fn.parts) >= 2 THEN fn.parts[Len(fn.parts)] ELSE "/"

allowed_file(fn) ==
    HasDot(fn) /\ Lower(AfterLastDot(fn)) \in ALLOWED_EXTENSIONS

\* werkzeug secure_filename: path components are dropped
secure_filename(fn) == fn.parts

\* get_safe_filename: local timestamp prefix and the secured name
get_safe_filename(fn) == [ts |-> LocalNow, name |-> secure_filename(fn)]

\* os.path.join(UPLOAD_FOLDER, safe_name)
JoinPath(folder, name) == [folder |-> folder, file |-> name]

----------------------------------------------------------------------------
(* File contents and the content validator *)

Contents ==
    { [mime |-> "application/pdf", size |-> 2],
      [mime |-> "text/plain", size |-> 1] }

MimeExts == {"pdf", "txt", "jpg", "jpeg", "png"}

mime_map(ext) ==
    CASE ext = "pdf" -> "application/pdf"
      [] ext = "txt" -> "text/plain"
      [] ext = "jpg" -> "image/jpeg"
      [] ext = "jpeg" -> "image/jpeg"
      [] ext = "png" -> "image/png"

\* validate_file_content; sniffOk is whether python-magic answered
validate_file_content(d, path, ext, sniffOk) ==
    /\ sniffOk
    /\ path \in DOMAIN d
    /\ Lower(ext) \in MimeExts
    /\ d[path].mime = mime_map(Lower(ext))

\* get_file_size_mb; 0 when os.path.getsize raises, as it does for a missing file
get_file_size_mb(d, path) ==
    IF path \in DOMAIN d THEN d[path].size ELSE 0

\* os.path.exists
Exists(d, path) == path \in DOMAIN d

\* the filesystem after file.save(path)
Saved(d, path, content) ==
    [p \in DOMAIN d \cup {path} |->
        IF p = path THEN [mime |-> content.mime, size |-> content.size, mtime |-> now]
        ELSE d[p]]

\* the filesystem after os.remove(path)
Removed(d, path) == [p \in DOMAIN d \ {path} |-> d[p]]

----------------------------------------------------------------------------
(* The job store: the print_jobs table, in rowid order *)

NullTime == 0 - 1

NullText == "NULL"

\* sqlite3 stores a Python bool as an integer; bool(row['duplex']) reads it back
BoolToInt(b) == IF b THEN 1 ELSE 0

IntToBool(i) == i # 0

NewRow(rowid, job_id, filename, original_filename, filepath, file_size_mb, copies, duplex) ==
    [ id |-> rowid,
      job_id |-> job_id,
      filename |-> filename,
      original_filename |-> original_filename,
      filepath |-> filepath,
      file_size_mb |-> file_size_mb,
      copies |-> copies,
      duplex |-> BoolToInt(duplex),
      status |-> "pending",
      submitted_at |-> CurrentTimestamp,
      completed_at |-> NullTime,
      error_message |-> NullText ]

\* an INSERT OR REPLACE keyed on the stored path: the row of a file printed
\* before is overwritten
replace_print_job(recs, rowid, job_id, filename, original_filename, filepath, file_size_mb, copies, duplex) ==
    LET row == NewRow(rowid, job_id, filename, original_filename, filepath,
                      file_size_mb, copies, duplex)
    IN  IF \E i \in DOMAIN recs : recs[i].filepath = filepath
        THEN [ i \in DOMAIN recs |-> IF recs[i].filepath = filepath THEN row ELSE recs[i] ]
        ELSE Append(recs, row)

\* add_print_job: the table after the INSERT has been committed
add_print_job(recs, rowid, job_id, filename, original_filename, filepath, file_size_mb, copies, duplex) ==
    Append(recs, NewRow(rowid, job_id, filename, original_filename, filepath,
                        file_size_mb, copies, duplex))

\* completed_at is stamped whatever the new status is
update_job_status_stamped(recs, job_id, status, error_message) ==
    [ i \in DOMAIN recs |->
        IF recs[i].job_id # job_id THEN recs[i]
        ELSE [recs[i] EXCEPT !.status = status, !.completed_at = CurrentTimestamp] ]

\* update_job_status: the table after the UPDATE has been committed
update_job_status(recs, job_id, status, error_message) ==
    [ i \in DOMAIN recs |->
        IF recs[i].job_id # job_id THEN recs[i]
        ELSE IF status = "completed"
             THEN [recs[i] EXCEPT !.status = status, !.completed_at = CurrentTimestamp]
             ELSE [recs[i] EXCEPT !.status = status, !.error_message = error_message] ]

Rows(recs) == { recs[i] : i \in DOMAIN recs }

\* get_recent_jobs: the rows the SELECT keeps
recent_rows(recs, days) ==
    { r \in Rows(recs) : r.submitted_at > LocalNow - Days(days) }

\* ORDER BY submitted_at DESC: every listing of the rows, newest first; rows
\* with equal submitted_at come in an order SQL does not fix
NewestFirst(S) ==
    { h \in [1..Cardinality(S) -> S] :
        /\ \A i, j \in DOMAIN h : i # j => h[i] # h[j]
        /\ \A i, j \in DOMAIN h : i < j => h[i].submitted_at >= h[j].submitted_at }

\* get_recent_jobs: the lists it may return
get_recent_jobs(recs, days) == NewestFirst(recent_rows(recs, days))

\* get_job_by_id: the rows fetchone() may return
get_job_by_id(recs, job_id) == { r \in Rows(recs) : r.job_id = job_id }

\* delete_old_records: whether the DELETE removes a row
IsOldRecord(r, days) == r.submitted_at < LocalNow - Days(days)

\* delete_old_records: the table after the DELETE has been committed
delete_old_records(recs, days) ==
    SelectSeq(recs, LAMBDA r : ~IsOldRecord(r, days))

\* delete_old_records: cursor.rowcount
deleted_rowcount(recs, days) == Len(recs) - Len(delete_old_records(recs, days))

----------------------------------------------------------------------------
(* The spooler adapter.  The outcomes of the lp, cancel and lpstat commands *)
(* are the environment's.                                                   *)

SpoolerIds == {"1"}

\* a confirmation text of lp that does not match "request id is <p>-<n>"
RawStdout == "queued"

\* what running lp can come to
LpRuns ==
    [kind : {"exit0"}, out : SpoolerIds \cup {RawStdout}]
      \cup [kind : {"nonzero", "timeout"}, out : {""}]

\* lp cannot print a file that is not there
LpRunsOn(d, path) ==
    IF Exists(d, path) THEN LpRuns ELSE { r \in LpRuns : r.kind # "exit0" }

\* submit_print_job: (success, message) for a run of lp
submit_print_job(run) ==
    CASE run.kind = "exit0" -> [ok |-> TRUE, msg |-> run.out]
      [] run.kind = "nonzero" -> [ok |-> FALSE, msg |-> "Unknown error submitting print job"]
      [] run.kind = "timeout" -> [ok |-> FALSE, msg |-> "Print command timed out"]

CancelRuns == {"exit0", "nonzero", "timeout", "missing", "exception"}

\* cancel_print_job: (success, message) for a run of cancel
cancel_print_job(run) ==
    CASE run = "exit0" -> [ok |-> TRUE, msg |-> "cancelled successfully"]
      [] run = "nonzero" -> [ok |-> FALSE, msg |-> "Failed to cancel job"]
      [] run = "timeout" -> [ok |-> FALSE, msg |-> "Cancel command timed out"]
      [] run = "missing" -> [ok |-> FALSE, msg |-> "CUPS cancel command not found"]
      [] run = "exception" -> [ok |-> FALSE, msg |-> "Error cancelling job"]

ProbeRuns == {"exit0", "nonzero", "exception"}

\* the exit status of lpstat -r is not looked at
ProbeRan(run) == run # "exception"

\* check_cups_available for a run of lpstat -r
check_cups_available(run) == run = "exit0"

----------------------------------------------------------------------------
(* Requests and responses *)

\* the copies form field: missing, an integer text, or a text int() rejects
CopiesField(kind, val) == [kind |-> kind, val |-> val]

\* the forms of an upload request: the copies field and the duplex field, ""
\* being a missing duplex field
Forms ==
    { [copies |-> CopiesField("missing", 0), duplex |-> ""],
      [copies |-> CopiesField("int", MaxCopies), duplex |-> "True"],
      [copies |-> CopiesField("int", MinCopies - 1), duplex |-> "false"],
      [copies |-> CopiesField("int", MaxCopies + 1), duplex |-> ""],
      [copies |-> CopiesField("junk", 0), duplex |-> "True"] }

\* request.form.get('duplex', 'false').lower() == 'true'
ParseDuplex(f) == IF f = "" THEN FALSE ELSE f \in {"true", "True", "TRUE"}

\* int(request.form.get('copies', 1)) when it does not raise
ParseCopies(f) == IF f.kind = "missing" THEN DefaultCopies ELSE f.val

\* only the upper end of the range is checked
CopiesNotAbove(copies) == ~(copies > MaxCopies)

CopiesInRange(copies) == ~(copies < MinCopies \/ copies > MaxCopies)

\* the batches of an upload request: the names of its file parts
Batches == UNION { [1..n -> Filenames] : n \in 0..MaxBatch }

\* the upload request in progress: the files still to process, the options and
\* the success flag of every result appended so far
IdleUpload == [pc |-> "idle", files |-> <<>>, copies |-> 0, duplex |-> FALSE, results |-> <<>>]

\* the reprint request in progress: the row it fetched
IdleReprint == [pc |-> "idle", job |-> <<>>]

Call(op, ok) == [op |-> op, ok |-> ok]

\* a JSON response: its HTTP status, its success flag, its error text and its
\* list (results, queue or history)
Response(handler, code, success, error, results) ==
    [handler |-> handler, code |-> code, success |-> success, error |-> error,
     results |-> results]

\* an exception left the handler: the framework answers, not the handler
Unhandled(handler) == Response(handler, 500, FALSE, "UNHANDLED", <<>>)

\* a step of a request that has not answered yet
Pending(handler, results) == Response(handler, 0, FALSE, "", results)

NoResponse == Response("none", 0, FALSE, "", <<>>)

\* the model takes up a request when no other is in progress; the sweeper and
\* the clock run between any two steps of a request
NoRequest == up.pc = "idle" /\ rp.pc = "idle"

Init ==
    /\ now = 0
    /\ tz \in TZOffsets
    /\ records = <<>>
    /\ nextRowId = 1
    /\ disk = [p \in {} |-> [mime |-> "", size |-> 0, mtime |-> 0]]
    /\ up = IdleUpload
    /\ rp = IdleReprint
    /\ log = <<>>
    /\ resp = NoResponse

\* time passes
Advance ==
    /\ \E t \in Instants : t > now /\ now' = t
    /\ log' = <<>>
    /\ resp' = NoResponse
    /\ UNCHANGED <<tz, records, nextRowId, disk, up, rp>>

----------------------------------------------------------------------------
(* upload_files: the request-level checks, app.py lines 78-109 *)

UploadReject(r) ==
    /\ resp' = r
    /\ log' = <<>>
    /\ UNCHANGED <<now, tz, records, nextRowId, disk, up, rp>>

\* not files or all(f.filename == '' for f in files)
NoneSelected(files) == files = <<>> \/ \A i \in DOMAIN files : files[i] = NoName

\* the handler's answer to one request: the outcome of lpstat -r, whether the
\* request has a 'files' part, the names of its files and its form
UploadHandle(probe, hasKey, files, form) ==
    IF ~check_cups_available(probe)
    THEN UploadReject(Response("upload", 503, FALSE, "Print server is not available", <<>>))
    ELSE IF ~hasKey
    THEN UploadReject(Response("upload", 400, FALSE, "No files provided", <<>>))
    ELSE IF NoneSelected(files)
    THEN UploadReject(Response("upload", 400, FALSE, "No files selected", <<>>))
    ELSE IF form.copies.kind = "junk"
    THEN UploadReject(Unhandled("upload"))
    ELSE IF ~CopiesInRange(ParseCopies(form.copies))
    THEN UploadReject(Response("upload", 400, FALSE,
                               "Number of copies must be between 1 and 10", <<>>))
    ELSE /\ nextRowId + Len(files) <= MaxRows + 1
         /\ Cardinality(DOMAIN disk) + Len(files) <= MaxRows
         /\ up' = [pc |-> "loop", files |-> files,
                   copies |-> ParseCopies(form.copies),
                   duplex |-> ParseDuplex(form.duplex),
                   results |-> <<>>]
         /\ log' = <<>>
         /\ resp' = Pending("upload", <<>>)
         /\ UNCHANGED <<now, tz, records, nextRowId, disk, rp>>

\* every request, with every outcome of the probe
Requests == [probe : ProbeRuns, hasKey : BOOLEAN, files : Batches, form : Forms]

DefaultForm == [copies |-> CopiesField("missing", 0), duplex |-> ""]

\* the requests the handler is given: of the requests that differ only in what
\* is sent to a spooler that does not answer, in the files of a request with no
\* 'files' part, or in the form of a request with no named file, one is kept;
\* a request whose copies field is not an integer from 1 to 10 has one file
TriedRequests ==
    { r \in Requests :
        /\ r.probe # "exit0" => ~r.hasKey
        /\ ~r.hasKey => r.files = <<>>
        /\ (~r.hasKey \/ \A i \in DOMAIN r.files : r.files[i] = NoName)
              => r.form = DefaultForm
        /\ (r.form.copies.kind = "junk"
               \/ r.form.copies.val < MinCopies - BoolToInt(r.form.copies.kind = "missing")
               \/ r.form.copies.val > MaxCopies)
              => Len(r.files) <= 1 }

UploadBegin ==
    /\ NoRequest
    /\ \E r \in TriedRequests : UploadHandle(r.probe, r.hasKey, r.files, r.form)

----------------------------------------------------------------------------
(* upload_files: one pass of the loop over the files, app.py lines 113-190 *)

FileResult(fn, success, job_id, error) ==
    [filename |-> fn, success |-> success, job_id |-> job_id, error |-> error]

\* the loop goes on to the next file: `continue`, or the end of the body;
\* `appended` is what the pass appended to results
NextFile(d, recs, rowid, appended, calls) ==
    /\ disk' = d
    /\ records' = recs
    /\ nextRowId' = rowid
    /\ up' = [up EXCEPT !.files = Tail(@),
                        !.results = @ \o [i \in DOMAIN appended |-> appended[i].success]]
    /\ log' = calls
    /\ resp' = Pending("upload", appended)
    /\ UNCHANGED <<now, tz, rp>>

\* an exception leaves upload_files: the request ends with no results
UploadCrash(d, calls) ==
    /\ disk' = d
    /\ up' = IdleUpload
    /\ log' = calls
    /\ resp' = Unhandled("upload")
    /\ UNCHANGED <<now, tz, records, nextRowId, rp>>

\* the except clause of the loop body, app.py lines 181-190
UploadExcept(d, fn, path, calls) ==
    IF Exists(d, path)
    THEN \E rmOk \in BOOLEAN :
        IF rmOk
        THEN NextFile(Removed(d, path), records, nextRowId,
                      <<FileResult(fn, FALSE, "", "Error processing file")>>,
                      Append(calls, Call("remove", TRUE)))
        ELSE UploadCrash(d, Append(calls, Call("remove", FALSE)))
    ELSE NextFile(d, records, nextRowId,
                  <<FileResult(fn, FALSE, "", "Error processing file")>>, calls)

\* os.remove(filepath) in the try block, then the result; app.py lines 138-144, 174-179
UploadDiscard(d, fn, path, error, calls) ==
    \E rmOk \in BOOLEAN :
        IF rmOk
        THEN NextFile(Removed(d, path), records, nextRowId,
                      <<FileResult(fn, FALSE, "", error)>>,
                      Append(calls, Call("remove", TRUE)))
        ELSE UploadExcept(d, fn, path, Append(calls, Call("remove", FALSE)))

\* add_print_job and the result, app.py lines 152-171
UploadRecord(d, fn, safe_name, path, file_size_mb, job_id, calls) ==
    \E dbOk \in BOOLEAN :
        IF dbOk
        THEN NextFile(d,
                      add_print_job(records, nextRowId, job_id, safe_name, fn, path,
                                    file_size_mb, up.copies, up.duplex),
                      nextRowId + 1,
                      <<FileResult(fn, TRUE, job_id, "")>>,
                      Append(calls, Call("insert", TRUE)))
        ELSE UploadExcept(d, fn, path, Append(calls, Call("insert", FALSE)))

\* the job is recorded whatever submit_print_job returned
UploadSubmitUnchecked(d, fn, safe_name, path, calls) ==
    \E run \in LpRunsOn(d, path) :
        LET sub == submit_print_job(run)
        IN  UploadRecord(d, fn, safe_name, path, get_file_size_mb(d, path), sub.msg,
                         Append(calls, Call("submit", sub.ok)))

\* get_file_size_mb and submit_print_job, app.py lines 146-179
UploadSubmit(d, fn, safe_name, path, calls) ==
    \E run \in LpRunsOn(d, path) :
        LET file_size_mb == get_file_size_mb(d, path)
            sub == submit_print_job(run)
            submitted == Append(calls, Call("submit", sub.ok))
        IN  IF sub.ok
            THEN UploadRecord(d, fn, safe_name, path, file_size_mb, sub.msg, submitted)
            ELSE UploadDiscard(d, fn, path, sub.msg, submitted)

\* what file.save leaves behind: the file, nothing, or the leading part of
\* the file (the model keeps no byte count of it)
SaveRuns == {"ok", "failed", "partial"}

\* file.save and validate_file_content, app.py lines 126-144: `save` is what
\* file.save did, `content` the bytes sent and `sniffOk` whether libmagic
\* could read the saved file
UploadSave(fn, save, content, sniffOk) ==
    LET safe_name == get_safe_filename(fn)
        path == JoinPath(UPLOAD_FOLDER, safe_name)
    IN  IF save = "failed"
        THEN UploadExcept(disk, fn, path, <<Call("save", FALSE)>>)
        ELSE IF save = "partial"
        THEN UploadExcept(Saved(disk, path, content), fn, path,
                          <<Call("save", FALSE)>>)
        ELSE LET d == Saved(disk, path, content)
                 saved == <<Call("save", TRUE)>>
             IN  IF ~validate_file_content(d, path, Lower(AfterLastDot(fn)), sniffOk)
                 THEN UploadDiscard(d, fn, path, "File content does not match extension",
                                    saved)
                 ELSE UploadSubmit(d, fn, safe_name, path, saved)

UploadFile ==
    /\ up.pc = "loop"
    /\ up.files # <<>>
    /\ LET fn == Head(up.files) IN
        IF fn = NoName
        THEN NextFile(disk, records, nextRowId, <<>>, <<>>)
        ELSE IF ~allowed_file(fn)
        THEN NextFile(disk, records, nextRowId,
                      <<FileResult(fn, FALSE, "", "File type not allowed")>>, <<>>)
        ELSE \E save \in SaveRuns, content \in Contents, sniffOk \in BOOLEAN :
                UploadSave(fn, save, content, sniffOk)

\* the response after the loop, app.py lines 192-198
UploadEnd ==
    /\ up.pc = "loop"
    /\ up.files = <<>>
    /\ resp' = Response("upload", 200, \E i \in DOMAIN up.results : up.results[i], "",
                        up.results)
    /\ up' = IdleUpload
    /\ log' = <<>>
    /\ UNCHANGED <<now, tz, records, nextRowId, disk, rp>>

----------------------------------------------------------------------------
(* get_queue, app.py lines 201-235 *)

\* jobs lpstat -o may list
MaxQueue == 1

QueuedJobs == [job_id : SpoolerIds \cup {RawStdout}, size : {"1024"}]

LpstatRuns ==
    [kind : {"exit0"}, jobs : UNION { [1..n -> QueuedJobs] : n \in 0..MaxQueue }]
      \cup [kind : {"nonzero", "timeout"}, jobs : {<<>>}]

\* get_print_queue: the jobs parsed from a run of lpstat -o
get_print_queue(run) == IF run.kind = "exit0" THEN run.jobs ELSE <<>>

\* {job['job_id']: job for job in jobs}: a later row replaces an earlier one
LastWithId(jobs, job_id) ==
    LET hits == { i \in DOMAIN jobs : jobs[i].job_id = job_id }
    IN  IF hits = {} THEN <<>>
        ELSE <<jobs[CHOOSE i \in hits : \A k \in hits : k <= i]>>

\* one entry of the merged queue
QueueEntry(cups_job, jobs) ==
    LET db_job == LastWithId(jobs, cups_job.job_id)
    IN  IF db_job = <<>>
        THEN [job_id |-> cups_job.job_id, filename |-> <<"Unknown">>,
              copies |-> DefaultCopies, duplex |-> 0,
              status |-> "pending", size |-> cups_job.size]
        ELSE [job_id |-> cups_job.job_id,
              filename |-> db_job[1].original_filename.parts,
              copies |-> db_job[1].copies, duplex |-> db_job[1].duplex,
              status |-> "pending", size |-> cups_job.size]

\* the handler's answer, `run` being what lpstat -o did and dbOk whether the
\* SELECT went through
QueueHandle(run, dbOk) ==
    LET cups_queue == get_print_queue(run) IN
    IF ~dbOk
    THEN resp' = Response("queue", 500, FALSE, "Error getting queue", <<>>)
    ELSE \E jobs \in get_recent_jobs(records, QueueWindowDays) :
        resp' = Response("queue", 200, TRUE, "",
                         [i \in DOMAIN cups_queue |-> QueueEntry(cups_queue[i], jobs)])

get_queue ==
    /\ NoRequest
    /\ \E run \in LpstatRuns, dbOk \in BOOLEAN : QueueHandle(run, dbOk)
    /\ log' = <<>>
    /\ UNCHANGED <<now, tz, records, nextRowId, disk, up, rp>>

----------------------------------------------------------------------------
(* get_history, app.py lines 238-268 *)

HistoryEntry(job) ==
    [job_id |-> job.job_id, filename |-> job.original_filename.parts,
     copies |-> job.copies, duplex |-> IntToBool(job.duplex), status |-> job.status,
     submitted_at |-> job.submitted_at, completed_at |-> job.completed_at,
     file_size_mb |-> job.file_size_mb, error_message |-> job.error_message]

get_history ==
    /\ NoRequest
    /\ \E dbOk \in BOOLEAN :
        IF ~dbOk
        THEN resp' = Response("history", 500, FALSE, "Error getting history", <<>>)
        ELSE \E jobs \in get_recent_jobs(records, FILE_RETENTION_DAYS) :
            resp' = Response("history", 200, TRUE, "",
                             [i \in DOMAIN jobs |-> HistoryEntry(jobs[i])])
    /\ log' = <<>>
    /\ UNCHANGED <<now, tz, records, nextRowId, disk, up, rp>>

----------------------------------------------------------------------------
(* cancel_job, app.py lines 271-295 *)

\* the job ids a request may name
RequestIds == SpoolerIds \cup {RawStdout}

\* the row is marked cancelled whatever cancel_print_job returned
CancelUnchecked(job_id, run) ==
    LET can == cancel_print_job(run)
    IN  /\ log' = <<Call("cancel", can.ok), Call("update", TRUE)>>
        /\ records' = update_job_status(records, job_id, "cancelled", NullText)
        /\ resp' = IF can.ok THEN Response("cancel", 200, TRUE, "", <<>>)
                   ELSE Response("cancel", 400, FALSE, "", <<>>)

\* the handler's answer to a request naming job_id, `run` being what the
\* cancel command did
CancelHandle(job_id, run) ==
    LET can == cancel_print_job(run)
        cancelled == <<Call("cancel", can.ok)>>
    IN  IF can.ok
        THEN \E dbOk \in BOOLEAN :
            /\ log' = Append(cancelled, Call("update", dbOk))
            /\ IF dbOk
               THEN /\ records' = update_job_status(records, job_id, "cancelled", NullText)
                    /\ resp' = Response("cancel", 200, TRUE, "", <<>>)
               ELSE /\ records' = records
                    /\ resp' = Response("cancel", 500, FALSE, "Error cancelling job", <<>>)
        ELSE /\ log' = cancelled
             /\ records' = records
             /\ resp' = Response("cancel", 400, FALSE, "", <<>>)

cancel_job ==
    /\ NoRequest
    /\ \E job_id \in RequestIds, run \in CancelRuns : CancelHandle(job_id, run)
    /\ UNCHANGED <<now, tz, nextRowId, disk, up, rp>>

----------------------------------------------------------------------------
(* reprint_job, app.py lines 298-354.  The request is two steps: the       *)
(* lookup and the existence check, then the submission and the insert.     *)

ReprintAnswer(r) ==
    /\ resp' = r
    /\ log' = <<>>
    /\ rp' = IdleReprint
    /\ UNCHANGED <<now, tz, records, nextRowId, disk, up>>

\* the fetched row goes to the spooler without a look at the filesystem
ReprintUnchecked(job) ==
    /\ rp' = [pc |-> "submit", job |-> <<job>>]
    /\ log' = <<>>
    /\ resp' = Pending("reprint", <<job.id>>)
    /\ UNCHANGED <<now, tz, records, nextRowId, disk, up>>

\* the check that the file of the fetched row is still there, app.py lines 311-316
ReprintFound(job) ==
    IF ~Exists(disk, job.filepath)
    THEN ReprintAnswer(Response("reprint", 404, FALSE, "File no longer available",
                                <<job.id>>))
    ELSE /\ rp' = [pc |-> "submit", job |-> <<job>>]
         /\ log' = <<>>
         /\ resp' = Pending("reprint", <<job.id>>)
         /\ UNCHANGED <<now, tz, records, nextRowId, disk, up>>

\* app.py lines 302-316
ReprintCheck ==
    /\ NoRequest
    /\ nextRowId <= MaxRows
    /\ \E job_id \in RequestIds, dbOk \in BOOLEAN :
        IF ~dbOk
        THEN ReprintAnswer(Response("reprint", 500, FALSE, "Error reprinting job", <<>>))
        ELSE IF get_job_by_id(records, job_id) = {}
        THEN ReprintAnswer(Response("reprint", 404, FALSE, "Job not found", <<>>))
        ELSE \E job \in get_job_by_id(records, job_id) : ReprintFound(job)

\* app.py lines 318-348
ReprintSubmit ==
    /\ rp.pc = "submit"
    /\ LET job == rp.job[1] IN
        \E run \in LpRunsOn(disk, job.filepath) :
            LET sub == submit_print_job(run)
                submitted == <<Call("submit", sub.ok)>>
            IN  IF sub.ok
                THEN \E dbOk \in BOOLEAN :
                    /\ log' = Append(submitted, Call("insert", dbOk))
                    /\ IF dbOk
                       THEN /\ records' = add_print_job(records, nextRowId, sub.msg,
                                                        job.filename, job.original_filename,
                                                        job.filepath, job.file_size_mb,
                                                        job.copies, IntToBool(job.duplex))
                            /\ nextRowId' = nextRowId + 1
                            /\ resp' = Response("reprint", 200, TRUE, "", <<job.id, sub.msg>>)
                       ELSE /\ UNCHANGED <<records, nextRowId>>
                            /\ resp' = Response("reprint", 500, FALSE, "Error reprinting job",
                                                <<job.id>>)
                ELSE /\ log' = submitted
                     /\ UNCHANGED <<records, nextRowId>>
                     /\ resp' = Response("reprint", 400, FALSE, sub.msg, <<job.id>>)
    /\ rp' = IdleReprint
    /\ UNCHANGED <<now, tz, disk, up>>

----------------------------------------------------------------------------
(* get_status, app.py lines 357-378 *)

get_status ==
    /\ NoRequest
    /\ \E probe \in ProbeRuns, folderOk \in BOOLEAN :
        resp' = Response("status", 200, TRUE, "", <<>>)
    /\ log' = <<>>
    /\ UNCHANGED <<now, tz, records, nextRowId, disk, up, rp>>

----------------------------------------------------------------------------
(* scheduled_cleanup, app.py lines 31-44 *)

\* cleanup_old_files: file_mtime < cutoff_time, both in local time
IsOldFile(d, p, days) == d[p].mtime + tz < LocalNow - Days(days)

OldFiles(d, days) == { p \in DOMAIN d : IsOldFile(d, p, days) }

\* cleanup_old_files: the filesystem after the scan, `stuck` being the files
\* whose os.remove raised
cleanup_old_files(d, days, stuck) ==
    [p \in DOMAIN d \ (OldFiles(d, days) \ stuck) |-> d[p]]

\* the sweep answers nobody: `resp` holds the two counts it prints, or the
\* count of files alone when delete_old_records raised
scheduled_cleanup ==
    /\ \E listOk \in BOOLEAN, dbOk \in BOOLEAN :
        \E stuck \in SUBSET OldFiles(disk, FILE_RETENTION_DAYS) :
            LET d == IF listOk
                     THEN cleanup_old_files(disk, FILE_RETENTION_DAYS, stuck)
                     ELSE disk
                deleted_files == Cardinality(DOMAIN disk) - Cardinality(DOMAIN d)
            IN  /\ disk' = d
                /\ IF dbOk
                   THEN /\ records' = delete_old_records(records, FILE_RETENTION_DAYS)
                        /\ resp' = Response("cleanup", 0, TRUE, "",
                                            <<deleted_files,
                                              deleted_rowcount(records, FILE_RETENTION_DAYS)>>)
                   ELSE /\ records' = records
                        /\ resp' = Response("cleanup", 0, FALSE, "UNHANDLED", <<deleted_files>>)
                /\ log' = <<Call("delete", dbOk)>>
    /\ UNCHANGED <<now, tz, nextRowId, up, rp>>

----------------------------------------------------------------------------

Next ==
    \/ Advance
    \/ UploadBegin
    \/ UploadFile
    \/ UploadEnd
    \/ get_queue
    \/ get_history
    \/ cancel_job
    \/ ReprintCheck
    \/ ReprintSubmit
    \/ get_status
    \/ scheduled_cleanup

Spec == Init /\ [][Next]_vars

\* uploads alone, with the clock
NextUpload ==
    \/ Advance
    \/ UploadBegin
    \/ UploadFile
    \/ UploadEnd

SpecUpload == Init /\ [][NextUpload]_vars

----------------------------------------------------------------------------
(* Properties *)

\* the rows of the table after the step that were not in it before the step
InsertedRows == { r \in Rows(records') : \A q \in Rows(records) : q.id # r.id }

\* the step called submit_print_job, got job_id from it, and called
\* add_print_job next, which committed
SubmittedThenInserted(job_id) ==
    /\ \E k \in 1..(Len(log') - 1) :
        log'[k] = Call("submit", TRUE) /\ log'[k + 1] = Call("insert", TRUE)
    /\ \A k \in DOMAIN log' : log'[k] # Call("submit", FALSE)
    /\ \/ /\ resp'.handler = "upload"
          /\ \E i \in DOMAIN resp'.results :
                resp'.results[i].success /\ resp'.results[i].job_id = job_id
       \/ /\ resp'.handler = "reprint"
          /\ resp'.results[Len(resp'.results)] = job_id

\* C1: a row enters the job store only in a step of an upload or a reprint in
\* which the spooler accepted the job just before the insert, and the row
\* carries the job id the spooler returned; a step whose submit failed adds
\* no row.
C1_RecordOnlyAfterSubmit ==
    [][\A r \in InsertedRows : SubmittedThenInserted(r.job_id)]_vars

\* an upload has just recorded a job the spooler accepted
C1_Witness ==
    /\ resp.handler = "upload"
    /\ Len(log) >= 2
    /\ log[Len(log)] = Call("insert", TRUE)
    /\ log[Len(log) - 1] = Call("submit", TRUE)
    /\ \E i \in DOMAIN records : records[i].job_id = resp.results[1].job_id

\* C2: when the spooler's cancel fails, the cancel request changes no row and
\* does not answer success; a row's status changes to "cancelled" only in a
\* cancel request whose spooler cancel succeeded.
C2_CancelOnlyOnSuccess ==
    [][/\ \A job_id \in RequestIds, run \in CancelRuns \ {"exit0"} :
            (NoRequest /\ resp'.handler = "cancel" /\ CancelHandle(job_id, run))
                => (records' = records /\ resp'.code # 200 /\ ~resp'.success)
       /\ \A r \in Rows(records), q \in Rows(records') :
            (q.id = r.id /\ q.status # r.status)
                => /\ q.status = "cancelled"
                   /\ log' = <<Call("cancel", TRUE), Call("update", TRUE)>>
                   /\ resp' = Response("cancel", 200, TRUE, "", <<>>)]_vars

\* a cancel the spooler refused, with a pending row and a row cancelled before
C2_Witness ==
    /\ resp = Response("cancel", 400, FALSE, "", <<>>)
    /\ log = <<Call("cancel", FALSE)>>
    /\ \E i \in DOMAIN records : records[i].status = "pending"
    /\ \E i \in DOMAIN records : records[i].status = "cancelled"

\* C3: a reprint whose fetched row names a file that is no longer in the
\* upload directory answers 404, calls neither the spooler nor the store's
\* insert, and leaves the job store as it was.
C3_ReprintMissingFile ==
    [][\A job \in Rows(records) :
        (/\ NoRequest
         /\ ~Exists(disk, job.filepath)
         /\ resp'.handler = "reprint"
         /\ ReprintFound(job))
            => /\ resp'.code = 404
               /\ ~resp'.success
               /\ log' = <<>>
               /\ records' = records
               /\ nextRowId' = nextRowId
               /\ rp'.pc = "idle"]_vars

\* a reprint has just answered 404 for a row whose file is gone
C3_Witness ==
    /\ resp.handler = "reprint"
    /\ resp.code = 404
    /\ resp.error = "File no longer available"
    /\ \E i \in DOMAIN records :
        records[i].id = resp.results[1] /\ ~Exists(disk, records[i].filepath)

\* the fields a reprint copies from the row it fetched
CopiedFields(r) ==
    <<r.filename, r.original_filename, r.filepath, r.file_size_mb, r.copies, r.duplex>>

HasNamedFile(files) == \E i \in DOMAIN files : files[i] # NoName

\* the request was refused and nothing was written, submitted or recorded
RefusedUntouched(code) ==
    /\ resp'.code = code
    /\ ~resp'.success
    /\ log' = <<>>
    /\ disk' = disk
    /\ records' = records
    /\ nextRowId' = nextRowId
    /\ up' = IdleUpload

\* C5: an upload request with a named file, sent while the spooler answers,
\* whose copies field is an integer below 1 or above 10 is answered 400; no
\* file of the batch is written, submitted to the spooler or recorded.
C5_CopiesOutOfRange ==
    [][\A files \in Batches, form \in Forms :
        (/\ HasNamedFile(files)
         /\ form.copies.kind = "int"
         /\ (form.copies.val < MinCopies \/ form.copies.val > MaxCopies)
         /\ NoRequest
         /\ resp'.handler = "upload"
         /\ UploadHandle("exit0", TRUE, files, form))
            => RefusedUntouched(400)]_vars

\* an upload has just been refused for its copies field, with a row in the
\* store and a file in the upload directory from an earlier upload
C5_Witness ==
    /\ resp = Response("upload", 400, FALSE,
                       "Number of copies must be between 1 and 10", <<>>)
    /\ up = IdleUpload
    /\ records # <<>>
    /\ DOMAIN disk # {}

\* C7: an upload request sent while lpstat -r fails or cannot be run is
\* answered 503 whatever its files and form are; no file is written,
\* submitted to the spooler or recorded.
C7_SpoolerUnavailable ==
    [][\A r \in Requests :
        (/\ r.probe # "exit0"
         /\ NoRequest
         /\ resp'.handler = "upload"
         /\ UploadHandle(r.probe, r.hasKey, r.files, r.form))
            => RefusedUntouched(503)]_vars

\* an upload has just been refused because the spooler did not answer, with a
\* row in the store and a file in the upload directory from an earlier upload
C7_Witness ==
    /\ resp = Response("upload", 503, FALSE, "Print server is not available", <<>>)
    /\ up = IdleUpload
    /\ records # <<>>
    /\ DOMAIN disk # {}

\* the loop of an upload is about to process a file with a name
AtNamedFile == up.pc = "loop" /\ up.files # <<>> /\ Head(up.files) # NoName

\* C6: a named file with an allowed extension whose sniffed type is not the
\* type of its extension, or that could not be sniffed, is written and then
\* removed from the upload directory, is not submitted to the spooler, gets no
\* row, and gets the result "File content does not match extension".
C6_ContentMismatch ==
    [][\A content \in Contents, sniffOk \in BOOLEAN :
        (/\ AtNamedFile
         /\ allowed_file(Head(up.files))
         /\ (~sniffOk \/ content.mime # mime_map(Lower(AfterLastDot(Head(up.files)))))
         /\ resp'.handler = "upload"
         /\ UploadSave(Head(up.files), "ok", content, sniffOk))
            => /\ log' = <<Call("save", TRUE), Call("remove", TRUE)>>
               /\ ~Exists(disk', JoinPath(UPLOAD_FOLDER, get_safe_filename(Head(up.files))))
               /\ records' = records
               /\ resp'.results = <<FileResult(Head(up.files), FALSE, "",
                                               "File content does not match extension")>>]_vars

\* a mismatching file whose first os.remove raised got another result
C6_Witness ==
    /\ resp.handler = "upload"
    /\ log = <<Call("save", TRUE), Call("remove", FALSE), Call("remove", TRUE)>>
    /\ resp.results = <<FileResult(resp.results[1].filename, FALSE, "",
                                   "Error processing file")>>

\* C8: in an upload that passed the request-level checks, the pass over a
\* named file appends one result and the loop goes on to the file after it.
C8_FilesIsolated ==
    [][(AtNamedFile /\ up' # up)
        => /\ up'.pc = "loop"
           /\ up'.files = Tail(up.files)
           /\ Len(up'.results) = Len(up.results) + 1
           /\ Len(resp'.results) = 1]_vars

\* the request ended inside the loop: os.remove raised in the except clause
C8_Witness ==
    /\ resp = Unhandled("upload")
    /\ up = IdleUpload
    /\ log # <<>>
    /\ log[Len(log)] = Call("remove", FALSE)

\* C9: a sweep of the job store at time now removes the rows with
\* submitted_at < now - FILE_RETENTION_DAYS and no other row, changes no row
\* it keeps, and returns the number of rows it removed.
C9_RetentionCutoff ==
    [][(resp'.handler = "cleanup" /\ log' = <<Call("delete", TRUE)>>)
        => /\ records' = SelectSeq(records,
                             LAMBDA r : r.submitted_at >= now - Days(FILE_RETENTION_DAYS))
           /\ resp'.results[2] = Len(records) - Len(records')]_vars

\* a sweep run exactly FILE_RETENTION_DAYS after the first instant removed a
\* row, and no row is older than the first instant
C9_Witness ==
    /\ now = Days(FILE_RETENTION_DAYS)
    /\ resp.handler = "cleanup"
    /\ log = <<Call("delete", TRUE)>>
    /\ resp.results[2] > 0

RequestHandlers == {"upload", "queue", "history", "cancel", "reprint", "status"}

\* C10: no exception leaves a request handler: every answer to an upload,
\* queue, history, cancel, reprint or status request is the handler's own.
C10_NoEscape == resp.handler \in RequestHandlers => resp.error # "UNHANDLED"

\* int() raised on the copies field before any file was looked at
C10_Witness ==
    /\ resp = Unhandled("upload")
    /\ log = <<>>
    /\ up = IdleUpload

\* C11: a reprint whose file is deleted after its existence check and before
\* its submit ends with the not-found answer (404) and adds no row: it does
\* not end as a spooler rejection (400) or any other answer.
C11_ReprintLosesRace ==
    [][(/\ rp.pc = "submit"
        /\ ~Exists(disk, rp.job[1].filepath)
        /\ rp'.pc = "idle"
        /\ resp'.handler = "reprint")
        => /\ resp'.code = 404
           /\ records' = records
           /\ nextRowId' = nextRowId]_vars

\* a reprint has answered 400 for a row whose file the sweep removed after
\* the reprint had found it
C11_Witness ==
    /\ resp.handler = "reprint"
    /\ resp.code = 400
    /\ log = <<Call("submit", FALSE)>>
    /\ \E i \in DOMAIN records :
        records[i].id = resp.results[1] /\ ~Exists(disk, records[i].filepath)

Statuses == {"pending", "completed", "cancelled", "failed"}

\* C12: after every step, every row has one of the four statuses; a row that
\* has just been inserted is pending; a row that was not pending before the
\* step is not pending after it; completed_at is set only in rows whose
\* status is "completed".
C12_StatusOneWay ==
    [][\A q \in Rows(records') :
        /\ q.status \in Statuses
        /\ q.completed_at # NullTime => q.status = "completed"
        /\ (\A r \in Rows(records) : r.id # q.id) => q.status = "pending"
        /\ \A r \in Rows(records) :
            (r.id = q.id /\ r.status # "pending") => q.status # "pending"]_vars

\* a cancelled row with no completion time next to a pending row that a
\* reprint of it has added
C12_Witness ==
    \E i, k \in DOMAIN records :
        /\ records[i].status = "cancelled"
        /\ records[i].completed_at = NullTime
        /\ records[k].status = "pending"
        /\ records[k].filepath = records[i].filepath
        /\ records[k].id > records[i].id
        /\ resp.handler = "reprint"

\* the entry carries the name, copies and duplex of the row
EntryOfRow(e, r) ==
    /\ e.filename = r.original_filename.parts
    /\ e.copies = r.copies
    /\ e.duplex = r.duplex

\* the entry carries the placeholder name, copies and duplex
EntryOfNoRow(e) ==
    /\ e.filename = <<"Unknown">>
    /\ e.copies = DefaultCopies
    /\ e.duplex = 0

\* C13: the queue response has one entry for each job lpstat -o listed, in
\* the same order; the entry of a job id that some row of the store has
\* carries the name, copies and duplex of such a row, however old the row is,
\* and the entry of a job id that no row has carries the placeholder.
C13_QueueMerge ==
    [][\A run \in LpstatRuns :
        (NoRequest /\ resp'.handler = "queue" /\ QueueHandle(run, TRUE))
            => /\ Len(resp'.results) = Len(get_print_queue(run))
               /\ \A i \in DOMAIN resp'.results :
                    LET e == resp'.results[i]
                        hits == get_job_by_id(records, e.job_id)
                    IN  /\ e.job_id = get_print_queue(run)[i].job_id
                        /\ IF hits = {} THEN EntryOfNoRow(e)
                           ELSE \E r \in hits : EntryOfRow(e, r)]_vars

\* the queue has just answered with the placeholder for a job id that a row
\* of the store has, the row having ten copies
C13_Witness ==
    /\ resp.handler = "queue"
    /\ resp.code = 200
    /\ Len(resp.results) = 1
    /\ EntryOfNoRow(resp.results[1])
    /\ \E i \in DOMAIN records :
        /\ records[i].job_id = resp.results[1].job_id
        /\ records[i].copies = MaxCopies


----------------------------------------------------------------------------
(* C14: a file the spooler accepted is recorded, kept and reported *)

\* the path upload_files stores the file at the head of the request under
HeadPath == JoinPath(UPLOAD_FOLDER, get_safe_filename(Head(up.files)))

\* the pass over one file called submit_print_job and the spooler took the job
SpoolerAccepted == \E i \in DOMAIN log' : log'[i] = Call("submit", TRUE)

\* C14: whenever the spooler accepted the job of an uploaded file, the pass
\* over that file appends a success result carrying the job id, a record with
\* that job id and that file's path is added to the store, and the file is
\* still on disk; a result is a failure only if the spooler accepted no job
C14_AcceptedIsRecorded ==
    [][(/\ up.pc = "loop"
        /\ up.files # <<>>
        /\ resp'.handler = "upload"
        /\ SpoolerAccepted)
        => /\ resp'.code = 0
           /\ Len(resp'.results) = 1
           /\ resp'.results[1].success
           /\ resp'.results[1].job_id \in SpoolerIds
           /\ Len(records') = Len(records) + 1
           /\ records'[Len(records')].job_id = resp'.results[1].job_id
           /\ records'[Len(records')].filepath = HeadPath
           /\ Exists(disk', HeadPath)]_vars

\* C14: the spooler accepted the job, the insert failed, the file was removed
\* and the file is reported as failed while no record was written
C14_Witness ==
    /\ resp.handler = "upload"
    /\ resp.code = 0
    /\ log = <<Call("save", TRUE), Call("submit", TRUE), Call("insert", FALSE),
               Call("remove", TRUE)>>
    /\ Len(resp.results) = 1
    /\ ~resp.results[1].success
    /\ resp.results[1].error = "Error processing file"
    /\ records = <<>>
    /\ DOMAIN disk = {}


----------------------------------------------------------------------------
(* C15: an upload leaves the files of other uploads' records alone *)

\* no file of the request in progress was recorded so far: every record of
\* the store was written by another upload
NoneRecordedYet == \A i \in DOMAIN up.results : ~up.results[i]

\* C15: the pass of an upload over one file neither deletes nor overwrites a
\* file that a record of another upload points to, also when the two uploads
\* have the same name within the same second and so the same stored path
C15_OthersFilesKept ==
    [][(/\ up.pc = "loop"
        /\ up.files # <<>>
        /\ NoneRecordedYet
        /\ resp'.handler = "upload")
        => \A r \in Rows(records) :
              Exists(disk, r.filepath)
                  => /\ Exists(disk', r.filepath)
                     /\ disk'[r.filepath] = disk[r.filepath]]_vars

\* C15: a second upload of the same name in the same second failed the
\* content check and its cleanup removed the file the first upload's record
\* points to
C15_Witness ==
    /\ resp.handler = "upload"
    /\ resp.code = 0
    /\ Len(resp.results) = 1
    /\ ~resp.results[1].success
    /\ resp.results[1].error = "File content does not match extension"
    /\ log = <<Call("save", TRUE), Call("remove", TRUE)>>
    /\ up.results = <<FALSE>>
    /\ \E i \in DOMAIN records :
          /\ records[i].status = "pending"
          /\ records[i].filepath = JoinPath(UPLOAD_FOLDER,
                                            get_safe_filename(resp.results[1].filename))
          /\ ~Exists(disk, records[i].filepath)

====
